---- MODULE Spec2Model ----
(***************************************************************************)
(* A model of annealingcollager: the generic simulated-annealing engine    *)
(* (src/src/collager.rs, Annealer), the collage driver                     *)
(* (Collager::collage) and the pixel buffer operations                     *)
(* (src/src/lab_image.rs).                                                 *)
(*                                                                         *)
(* Numbers.  The program computes in f32.  The model computes in exact     *)
(* integer / rational arithmetic on domains where the f32 computation is   *)
(* exact: energies and maximum temperatures are small integers, maximum    *)
(* temperatures are taken from MaxTemperatures, image sizes stay below 26. *)
(* A rational is a record [num, den] with den > 0.                         *)
(***************************************************************************)
EXTENDS Integers, Sequences, FiniteSets, TLC

VARIABLES
    \* ---- Annealer<S> (collager.rs:622-627) and the position inside
    \* ---- anneal_with_energy (collager.rs:641-651)
    an_pc,            \* "idle", "loop", "done" (returned), "failed" (panicked)
    steps,            \* the argument of anneal_with_energy
    k,                \* the loop variable of anneal_with_energy
    max_temperature,  \* Annealer.max_temperature
    state,            \* Annealer.state : StateEnergy<S>
    best_neighbor,    \* Annealer.best_neighbor : Option<StateEnergy<S>>
    \* ---- history of the run (not program state)
    start,            \* the StateEnergy the Annealer was constructed with
    drawn,            \* the neighbors drawn so far, in order
    last,             \* what the last improve call saw and decided
    result,           \* what anneal_with_energy returned, None before it returns
    \* ---- Collager::collage (collager.rs:45-125)
    dpc,              \* position inside collage
    config,           \* CollagerConfig
    images,           \* the overlay library
    original,         \* Collager.image, the target
    output,           \* the running canvas
    layer,            \* the loop variable i of the layer loop
    restart,          \* how many restarts of this layer have been started
    acc,              \* the accumulator of min_by over the restarts
    \* ---- history of the driver (not program state)
    improves,         \* improve calls executed since collage was entered
    log,              \* per finished restart of this layer: steps run, canvas seen, result
    \* ---- one call of a pixel buffer operation
    call,             \* the operation and its arguments
    ret,              \* its outcome, None before the call
    \* ---- one Paramable (collager.rs:214-218) and the ImageState it is applied to
    param,            \* the parameter: its kind, whether it was allowed, its value
    input,            \* the ImageState handed to apply
    applied,          \* what apply returned, None before the call
    \* ---- history of the parameter (not program state)
    draws,            \* random numbers drawn by the last neighbor call
    neighbors         \* neighbor calls made since the parameter was created

annealerVars == <<an_pc, steps, k, max_temperature, state, best_neighbor,
                  start, drawn, last, result>>
driverVars == <<dpc, config, images, original, output, layer, restart, acc,
                improves, log>>
imageVars == <<call, ret>>
paramVars == <<param, input, applied, draws, neighbors>>
vars == <<annealerVars, driverVars, imageVars, paramVars>>

None == [kind |-> "none"]

\* the values of the variables of a part of the program that is not running
AnnealerIdle ==
    /\ an_pc = "idle" /\ steps = 0 /\ k = 0 /\ max_temperature = 0
    /\ state = None /\ best_neighbor = None
    /\ start = None /\ drawn = <<>> /\ last = None /\ result = None

DriverIdle ==
    /\ dpc = "idle" /\ config = None /\ images = <<>> /\ original = None
    /\ output = None /\ layer = 0 /\ restart = 0 /\ acc = None
    /\ improves = 0 /\ log = <<>>

ImageIdle == call = None /\ ret = None

ParamIdle ==
    /\ param = None /\ input = None /\ applied = None
    /\ draws = 0 /\ neighbors = 0

Min(a, b) == IF a <= b THEN a ELSE b
Max(a, b) == IF a >= b THEN a ELSE b
Clamp(x, lo, hi) == Max(lo, Min(x, hi))

(***************************************************************************)
(* Bounds of the model.                                                    *)
(***************************************************************************)
MaxSteps == 3
MaxEnergy == 2
\* integer maximum temperatures for which max_temperature * (1 - (k+1)/steps)
\* and its comparison with an integer energy difference are exact in f32
MaxTemperatures == {0, 1, 2, 4}

(***************************************************************************)
(* Pixel buffers (lab_image.rs).                                           *)
(*                                                                         *)
(* An image is [width, height, data], data row-major, data[i+1] the pixel  *)
(* of index i.  A Laba pixel (overlay pixel) is an atom.  A Lab pixel      *)
(* (canvas pixel) is the sequence of what made it: its base colour         *)
(* followed by every overlay pixel blended onto it, in order.  Two canvas  *)
(* pixels that are equal as sequences are equal whatever blend computes.   *)
(***************************************************************************)
MaxCanvas == 2      \* canvas width and height are in 0..MaxCanvas
MaxOther == 2       \* overlay width and height are in 0..MaxOther
MaxSize == 3        \* resized_nearest: source and target sizes are in 0..MaxSize
MaxRaw == 3         \* from_raw: data length is in 0..MaxRaw

Point(px, py) == [x |-> px, y |-> py]
PointAdd(a, b) == [x |-> a.x + b.x, y |-> a.y + b.y]
PointSub(a, b) == [x |-> a.x - b.x, y |-> a.y - b.y]

Ok(img) == [tag |-> "ok", image |-> img]
Panic == [tag |-> "panic"]

\* Laba::blend(self, top): the canvas pixel with one more overlay pixel on it
Blend(this_pixel, pixel) == Append(this_pixel, pixel)

\* Indexer::to_position
to_position(width, index) == Point(index % width, index \div width)

\* Indexer::to_index
to_index(width, position) == position.x + position.y * width

\* GenericImage::between: low..high is half open on both axes
between(low, high, position) ==
    /\ low.x <= position.x /\ position.x < high.x
    /\ low.y <= position.y /\ position.y < high.y

\* GenericImage::size_point
size_point(img) == Point(img.width, img.height)

\* a mutant of inbounds: the upper limits are taken as inside
inbounds_inclusive(img, position) ==
    /\ 0 <= position.x /\ position.x <= img.width
    /\ 0 <= position.y /\ position.y <= img.height

\* GenericImage::inbounds
inbounds(img, position) == between(Point(0, 0), size_point(img), position)

\* GenericImage::from_raw: stores what it is given, checks nothing
from_raw(data, width, height) == [width |-> width, height |-> height, data |-> data]

\* GenericImage::from_fn
from_fn(width, height, f) ==
    [width |-> width, height |-> height,
     data |-> [index \in 1..(width * height) |-> f[to_position(width, index - 1)]]]

\* GenericImage::repeat
repeat(pixel, width, height) ==
    [width |-> width, height |-> height,
     data |-> [index \in 1..(width * height) |-> pixel]]

\* `value as i32` of a non-negative or negative rational num/den: towards zero
Trunc(num, den) == IF num >= 0 THEN num \div den ELSE -((-num) \div den)

\* a mutant of scaled_position: the scale is size / this_size
scaled_position_inverted(this_size, size, position) ==
    Point(Clamp(Trunc(position.x * size.x, this_size.x), 0, this_size.x - 1),
          Clamp(Trunc(position.y * size.y, this_size.y), 0, this_size.y - 1))

\* the closure of resized_nearest: the source coordinate of a destination pixel,
\* before the index.  scale = this_size / size, per axis.
scaled_position(this_size, size, position) ==
    Point(Clamp(Trunc(position.x * this_size.x, size.x), 0, this_size.x - 1),
          Clamp(Trunc(position.y * this_size.y, size.y), 0, this_size.y - 1))

\* GenericImage::resized_nearest.  i32::clamp panics when its bounds are
\* reversed and Index panics on a coordinate outside the source.
resized_nearest(img, size) ==
    LET this_size == size_point(img)
        pixels == {to_position(size.x, index - 1) : index \in 1..(size.x * size.y)}
        reads == {scaled_position(this_size, size, p) : p \in pixels}
    IN  IF /\ pixels # {}
           /\ \/ this_size.x - 1 < 0
              \/ this_size.y - 1 < 0
              \/ \E r \in reads : ~inbounds(img, r)
        THEN Panic
        ELSE [tag |-> "ok", reads |-> reads,
              image |-> from_fn(size.x, size.y,
                  [p \in pixels |->
                      img.data[to_index(img.width,
                                   scaled_position(this_size, size, p)) + 1]])]

\* LabImage::overlay, from the overlay pixel of index `index` on
RECURSIVE overlay_from(_, _, _, _)
overlay_from(img, other, position, index) ==
    IF index >= Len(other.data) THEN Ok(img)
    ELSE LET p == PointAdd(position, to_position(other.width, index))
             at == to_index(img.width, p) + 1
         IN  IF ~inbounds(img, p)
             THEN overlay_from(img, other, position, index + 1)
             ELSE IF at \notin 1..Len(img.data) THEN Panic
             ELSE overlay_from(
                      [img EXCEPT !.data[at] = Blend(@, other.data[index + 1])],
                      other, position, index + 1)

\* LabImage::overlay
overlay(img, other, position) == overlay_from(img, other, position, 0)

(***************************************************************************)
(* Rotation.  An angle is [cos, sin, den, bias]: its cosine is cos/den and *)
(* its sine sin/den, exactly (cos^2 + sin^2 = den^2).  The f32 result of   *)
(* rotating a point differs from the exact one by a rounding error; bias   *)
(* is the sign of that error (-1, 0, 1), which decides floor, ceil and     *)
(* round when the exact value is an integer or a half.  At angle 0 the     *)
(* f32 computation is exact (cos = 1, sin = 0), so its bias is 0.          *)
(* A rotated coordinate is the numerator of a fraction over 2 * den,       *)
(* because the pivot position + size / 2 may be a half.                    *)
(***************************************************************************)
Angle0 == [cos |-> 1, sin |-> 0, den |-> 1, bias |-> 0]

Angles ==
    {Angle0}
    \cup {[cos |-> t[1], sin |-> t[2], den |-> t[3], bias |-> b] :
            t \in {<<0, 1, 1>>, <<-1, 0, 1>>, <<0, -1, 1>>, <<3, 4, 5>>, <<-4, 3, 5>>},
            b \in {-1, 0, 1}}

\* f32::floor of num/den (+ the rounding error)
Floor(num, den, bias) ==
    IF num % den = 0 /\ bias < 0 THEN (num \div den) - 1 ELSE num \div den

\* f32::ceil of num/den (+ the rounding error)
Ceil(num, den, bias) ==
    IF num % den = 0 THEN (IF bias > 0 THEN (num \div den) + 1 ELSE num \div den)
    ELSE (num \div den) + 1

\* f32::round of num/den (+ the rounding error): to nearest, a half away from zero
Round(num, den, bias) ==
    IF (2 * num) % (2 * den) = den
    THEN IF bias > 0 \/ (bias = 0 /\ num > 0)
         THEN (num \div den) + 1
         ELSE num \div den
    ELSE (2 * num + den) \div (2 * den)

\* the closure `rotate` of overlay_rotated, with origin = origin2 / 2:
\* the numerators, over 2 * angle.den, of the rotated point
rotate(origin2, position, angle) ==
    LET rx == 2 * position.x - origin2.x
        ry == 2 * position.y - origin2.y
    IN  Point(angle.cos * rx - angle.sin * ry + angle.den * origin2.x,
              angle.sin * rx + angle.cos * ry + angle.den * origin2.y)

\* global_middle of overlay_rotated, doubled
global_middle2(other, position) ==
    Point(2 * position.x + other.width, 2 * position.y + other.height)

Min4(a, b, c, d) == Min(a, Min(b, Min(c, d)))
Max4(a, b, c, d) == Max(a, Max(b, Max(c, d)))

\* bb_low of overlay_rotated
bb_low(other, position, angle) ==
    LET m == global_middle2(other, position)
        ll == rotate(m, position, angle)
        lh == rotate(m, PointAdd(position, Point(0, other.height)), angle)
        hl == rotate(m, PointAdd(position, Point(other.width, 0)), angle)
        hh == rotate(m, PointAdd(position, size_point(other)), angle)
    IN  Point(Floor(Min4(ll.x, lh.x, hl.x, hh.x), 2 * angle.den, angle.bias),
              Floor(Min4(ll.y, lh.y, hl.y, hh.y), 2 * angle.den, angle.bias))

\* bb_high of overlay_rotated
bb_high(other, position, angle) ==
    LET m == global_middle2(other, position)
        ll == rotate(m, position, angle)
        lh == rotate(m, PointAdd(position, Point(0, other.height)), angle)
        hl == rotate(m, PointAdd(position, Point(other.width, 0)), angle)
        hh == rotate(m, PointAdd(position, size_point(other)), angle)
    IN  Point(Ceil(Max4(ll.x, lh.x, hl.x, hh.x), 2 * angle.den, angle.bias),
              Ceil(Max4(ll.y, lh.y, hl.y, hh.y), 2 * angle.den, angle.bias))

\* a mutant of sample_position: the placement offset is not subtracted
sample_position_no_offset(other, position, angle, pixel_position) ==
    LET r == rotate(global_middle2(other, position), pixel_position, angle)
    IN  Point(Round(r.x, 2 * angle.den, angle.bias),
              Round(r.y, 2 * angle.den, angle.bias))

\* the coordinate of `other` that overlay_rotated samples for a canvas pixel
sample_position(other, position, angle, pixel_position) ==
    LET r == rotate(global_middle2(other, position), pixel_position, angle)
    IN  PointSub(Point(Round(r.x, 2 * angle.den, angle.bias),
                       Round(r.y, 2 * angle.den, angle.bias)),
                 position)

\* LabImage::overlay_rotated: every canvas pixel inside the bounding box, once
overlay_rotated(img, other, position, angle) ==
    LET low == bb_low(other, position, angle)
        high == bb_high(other, position, angle)
        visited(index) == between(low, high, to_position(img.width, index - 1))
        from(index) ==
            sample_position(other, position, angle, to_position(img.width, index - 1))
    IN  IF \E index \in 1..Len(img.data) :
               /\ visited(index) /\ inbounds(other, from(index))
               /\ (to_index(other.width, from(index)) + 1) \notin 1..Len(other.data)
        THEN Panic
        ELSE Ok([img EXCEPT !.data =
                    [index \in 1..Len(img.data) |->
                        IF visited(index) /\ inbounds(other, from(index))
                        THEN Blend(img.data[index],
                                   other.data[to_index(other.width, from(index)) + 1])
                        ELSE img.data[index]]])

(***************************************************************************)
(* Annealables (collager.rs:476-602).  A state of the search is a record   *)
(* with a kind:                                                            *)
(*   "generic"    any Annealable: a tag and its energy e; random_neighbor  *)
(*                may return any state                                     *)
(*   "background" BackgroundAnnealable: a colour                           *)
(*   "image"      ImageAnnealable: the parameter chain, here the index     *)
(*                into the library and the normalized position; the        *)
(*                scale, hue, transparency and angle nodes are disabled    *)
(* Colours are 0 and 1, a Lab with one channel; on them the distance and   *)
(* its square root are exact.  A normalized position is position.x /       *)
(* canvas width: the grid on which position * size is an integer.          *)
(***************************************************************************)
Colours == {0, 1}

GenericStates ==
    {[kind |-> "generic", tag |-> t, e |-> e] : t \in {"a", "b"}, e \in 0..MaxEnergy}

\* the colour a canvas pixel shows when every pixel blended onto it is opaque
Colour(pixel) == pixel[Len(pixel)]

\* Lab::distance on one channel
Distance(a, b) == IF a >= b THEN a - b ELSE b - a

\* f32::sqrt, on the distances of Colours
Sqrt(d) == CASE d = 0 -> 0 [] d = 1 -> 1

RECURSIVE SumTo(_, _)
SumTo(f, n) == IF n = 0 THEN 0 ELSE f[n] + SumTo(f, n - 1)

SQRT_DISTANCE == TRUE

\* UsefulOps::image_difference: zip stops at the shorter of the two
image_difference(a, b) ==
    LET n == Min(Len(a), Len(b))
    IN  SumTo([index \in 1..n |->
                  IF SQRT_DISTANCE
                  THEN Sqrt(Distance(Colour(a[index]), Colour(b[index])))
                  ELSE Distance(Colour(a[index]), Colour(b[index]))], n)

\* UsefulOps::float_changed(v, temperature * scale) on a grid of step 1/unit:
\* the values v + delta * temperature * scale, delta in [-1, 1), among `values`
float_changed(v, temperature, unit, values) ==
    {w \in values :
        /\ -(temperature.num * unit) <= (w - v) * temperature.den
        /\ \/ (w - v) * temperature.den < temperature.num * unit
           \/ w = v}

\* BackgroundAnnealable::applied
background_applied(s) == repeat(<<s.color>>, original.width, original.height)

\* BackgroundAnnealable::random_neighbor
background_random_neighbor(s, temperature) ==
    {[s EXCEPT !.color = c] : c \in float_changed(s.color, temperature, 1, Colours)}

\* IndexParam::neighbor: resampled when fastrand::f32() < temperature
index_neighbor(index, temperature) ==
    IF temperature.num > 0
    THEN {index} \cup (0..(Len(images) - 1))
    ELSE {index}

\* the normalized positions of the model, in units of 1 / canvas width:
\* from before the canvas to after it
PositionGrid == (-1)..(original.width + 1)

\* PositionParam::neighbor (the canvas is one pixel high: y has no effect)
position_neighbor(position, temperature) ==
    float_changed(position, temperature, original.width, PositionGrid)

\* Node::neighbors over the chain
image_random_neighbor(s, temperature) ==
    {[s EXCEPT !.index = i, !.position = p] :
        i \in index_neighbor(s.index, temperature),
        p \in position_neighbor(s.position, temperature)}

\* PositionParam::apply: the pixel offset of a normalized position
position_offset(position, add_image, image) ==
    Point(Clamp(Trunc(position * image.width, image.width), 0,
                Max(image.width - add_image.width, 0)),
          Clamp(0, 0, Max(image.height - add_image.height, 0)))

\* Node::applies over the chain, on a clone of a canvas.  IndexParam stages the library image, AngleParam (disabled)
\* stages angle 0, PositionParam composites.
chain_applies(s, image) ==
    LET add_image == images[s.index + 1]
    IN  overlay_rotated(image, add_image,
                        position_offset(s.position, add_image, image), Angle0).image

\* ImageAnnealable::applied: self.current is the running canvas
image_applied(s) == chain_applies(s, output)

\* Annealable::energy
energy(s) ==
    CASE s.kind = "generic" -> s.e
      [] s.kind = "background" ->
            image_difference(original.data, background_applied(s).data)
      [] s.kind = "image" ->
            image_difference(original.data, image_applied(s).data)

\* Annealable::random_neighbor
random_neighbor(s, temperature) ==
    CASE s.kind = "generic" -> GenericStates
      [] s.kind = "background" -> background_random_neighbor(s, temperature)
      [] s.kind = "image" -> image_random_neighbor(s, temperature)

\* StateEnergy::new
StateEnergy(s) == [state |-> s, energy |-> energy(s)]

(***************************************************************************)
(* Annealer (collager.rs:621-682).                                         *)
(***************************************************************************)
\* Annealer::new, as the values of the annealer's variables
annealer_new(s, max_temp, n) ==
    /\ state' = StateEnergy(s)
    /\ best_neighbor' = None
    /\ max_temperature' = max_temp
    /\ steps' = n
    /\ k' = 0
    /\ an_pc' = "loop"
    /\ start' = StateEnergy(s)
    /\ drawn' = <<>>
    /\ last' = None
    /\ result' = None

\* a mutant of loop_continues: the range is 0..=steps
loop_continues_inclusive(kk, n) == kk <= n

\* `for k in 0..steps`
loop_continues(kk, n) == kk < n

\* 1.0 - fraction, fraction = (k + 1) / steps
fraction_left(kk, n) == [num |-> n - (kk + 1), den |-> n]

\* Annealer::temperature
temperature(fraction) ==
    [num |-> max_temperature * fraction.num, den |-> fraction.den]

\* a mutant of do_accept: the comparison is strict
do_accept_strict(e, neighbor_energy, temp) ==
    (neighbor_energy - e) * temp.den < temp.num

\* Annealer::do_accept
do_accept(e, neighbor_energy, temp) ==
    (neighbor_energy - e) * temp.den <= temp.num

\* a mutant of new_best: a neighbor of equal energy replaces the best
new_best_on_ties(best, neighbor) ==
    best = None \/ neighbor.energy <= best.energy

\* new_best of Annealer::improve
new_best(best, neighbor) ==
    best = None \/ neighbor.energy < best.energy

\* Annealer::improve, one iteration of the loop of anneal_with_energy
Improve ==
    /\ an_pc = "loop"
    /\ loop_continues(k, steps)
    /\ LET temp == temperature(fraction_left(k, steps))
       IN  \E n \in random_neighbor(state.state, temp) :
             \* StateEnergy::new(..): the energy is computed once
             \E neighbor \in {StateEnergy(n)} :
                 /\ best_neighbor' =
                        IF new_best(best_neighbor, neighbor)
                        THEN neighbor ELSE best_neighbor
                 /\ state' =
                        IF do_accept(state.energy, neighbor.energy, temp)
                        THEN neighbor ELSE state
                 /\ drawn' = Append(drawn, neighbor)
                 /\ last' = [k |-> k, temperature |-> temp, current |-> state,
                             neighbor |-> neighbor, best_before |-> best_neighbor]
    /\ k' = k + 1
    /\ improves' = improves + 1
    /\ UNCHANGED <<an_pc, steps, max_temperature, start, result>>
    /\ UNCHANGED <<dpc, config, images, original, output, layer, restart, acc, log>>
    /\ UNCHANGED <<imageVars, paramVars>>

\* the end of anneal_with_energy: self.best_neighbor.expect(..)
Return ==
    /\ an_pc = "loop"
    /\ ~loop_continues(k, steps)
    /\ an_pc' = IF best_neighbor = None THEN "failed" ELSE "done"
    /\ result' = best_neighbor
    /\ UNCHANGED <<steps, k, max_temperature, state, best_neighbor, start, drawn, last>>
    /\ UNCHANGED <<driverVars, imageVars, paramVars>>

\* a run of the annealer on any Annealable
Init ==
    /\ \E s \in GenericStates, t \in MaxTemperatures, n \in 0..MaxSteps :
          /\ state = StateEnergy(s)
          /\ best_neighbor = None
          /\ max_temperature = t
          /\ steps = n
          /\ start = StateEnergy(s)
    /\ k = 0 /\ an_pc = "loop" /\ drawn = <<>> /\ last = None /\ result = None
    /\ dpc = "idle" /\ config = None /\ images = <<>> /\ original = None
    /\ output = None /\ layer = 0 /\ restart = 0 /\ acc = None
    /\ improves = 0 /\ log = <<>>
    /\ ImageIdle
    /\ ParamIdle

Next == Improve \/ Return

Spec == Init /\ [][Next]_vars

(***************************************************************************)
(* Collager::collage (collager.rs:45-125), one action per annealing step   *)
(* and per step of the driver around the annealing runs.                   *)
(***************************************************************************)
MaxAmount == 2          \* config.amount is in 0..MaxAmount
MaxStarts == 2          \* config.starts is in 1..MaxStarts
BackgroundTemperature == 30

\* config.starting_temperature
StartingTemperatures == {0, 1}

\* config.steps
DriverSteps == 0..2

\* the targets: 2 x 1 images; up to the exchange of the two colours, the
\* first pixel has colour 0
Originals == {from_raw(<<<<0>>, <<c>>>>, 2, 1) : c \in Colours}

\* the libraries: none, one or two opaque 1 x 1 images
Libraries ==
    {<<>>, <<from_raw(<<0>>, 1, 1)>>, <<from_raw(<<0>>, 1, 1), from_raw(<<1>>, 1, 1)>>}

\* main: starts is config.starts.max(1)
Configs ==
    [steps : DriverSteps, amount : 0..MaxAmount, starts : 1..MaxStarts,
     starting_temperature : StartingTemperatures]

InitCollage ==
    /\ dpc = "start"
    /\ config \in Configs
    /\ images \in Libraries
    /\ original \in Originals
    /\ output = None /\ layer = 0 /\ restart = 0 /\ acc = None
    /\ improves = 0 /\ log = <<>>
    /\ AnnealerIdle
    /\ ImageIdle
    /\ ParamIdle

\* collage, lines 54-56: BackgroundAnnealable::new, Annealer::new(.., 30.0)
\* and the entry into anneal(steps)
BackgroundBegin ==
    /\ dpc = "start"
    /\ \E c \in Colours :
          annealer_new([kind |-> "background", color |-> c],
                       BackgroundTemperature, config.steps)
    /\ dpc' = "background"
    /\ UNCHANGED <<config, images, original, output, layer, restart, acc,
                   improves, log>>
    /\ UNCHANGED <<imageVars, paramVars>>

\* collage, line 56: anneal has returned, .applied() makes the first canvas
BackgroundEnd ==
    /\ dpc = "background"
    /\ an_pc = "done"
    /\ output' = background_applied(result.state)
    /\ dpc' = "layers"
    /\ an_pc' = "idle"
    /\ UNCHANGED <<steps, k, max_temperature, state, best_neighbor, start,
                   drawn, last, result>>
    /\ UNCHANGED <<config, images, original, layer, restart, acc, improves, log>>
    /\ UNCHANGED <<imageVars, paramVars>>

\* the panic of an annealing run unwinds collage
AnnealPanics ==
    /\ dpc \in {"background", "annealing"}
    /\ an_pc = "failed"
    /\ dpc' = "panicked"
    /\ UNCHANGED <<annealerVars, imageVars, paramVars>>
    /\ UNCHANGED <<config, images, original, output, layer, restart, acc,
                   improves, log>>

\* collage, line 59 and 93: the next iteration of `for i in 0..amount` starts
\* the iterator of the restarts
LayerBegin ==
    /\ dpc = "layers"
    /\ layer < config.amount
    /\ restart' = 0
    /\ acc' = None
    /\ log' = <<>>
    /\ dpc' = "restarts"
    /\ UNCHANGED <<config, images, original, output, layer, improves>>
    /\ UNCHANGED <<annealerVars, imageVars, paramVars>>

\* collage, lines 68-91: the closure anneal() up to the entry into
\* anneal_with_energy.  fastrand::usize(0..0) panics on the empty range.
RestartBegin ==
    /\ dpc = "restarts"
    /\ restart < config.starts
    /\ IF Len(images) = 0
       THEN /\ dpc' = "panicked"
            /\ UNCHANGED <<annealerVars, restart, log>>
       ELSE /\ \E index \in 0..(Len(images) - 1), position \in 0..(original.width - 1) :
                  annealer_new([kind |-> "image", index |-> index, position |-> position],
                               config.starting_temperature, config.steps)
            /\ restart' = restart + 1
            /\ log' = Append(log, [canvas |-> output, canvas_end |-> None,
                                   steps_run |-> 0, result |-> None])
            /\ dpc' = "annealing"
    /\ UNCHANGED <<config, images, original, output, layer, acc, improves>>
    /\ UNCHANGED <<imageVars, paramVars>>

\* a mutant of min_by: the comparison is reversed
max_by(a, b) == IF a = None THEN b ELSE IF b.energy > a.energy THEN b ELSE a

\* Iterator::min_by, one step of its fold: the first of equal minima is kept
min_by(a, b) == IF a = None THEN b ELSE IF b.energy < a.energy THEN b ELSE a

\* collage, lines 93-98: anneal() has returned, min_by compares its result
RestartEnd ==
    /\ dpc = "annealing"
    /\ an_pc = "done"
    /\ acc' = min_by(acc, result)
    /\ log' = [log EXCEPT ![Len(log)] =
                  [@ EXCEPT !.canvas_end = output, !.steps_run = Len(drawn),
                            !.result = result]]
    /\ dpc' = "restarts"
    /\ an_pc' = "idle"
    /\ UNCHANGED <<steps, k, max_temperature, state, best_neighbor, start,
                   drawn, last, result>>
    /\ UNCHANGED <<config, images, original, output, layer, restart, improves>>
    /\ UNCHANGED <<imageVars, paramVars>>

\* collage, line 99: .expect(..).state.applied() replaces the canvas
LayerEnd ==
    /\ dpc = "restarts"
    /\ restart >= config.starts
    /\ IF acc = None
       THEN dpc' = "panicked" /\ UNCHANGED <<output, layer>>
       ELSE /\ output' = image_applied(acc.state)
            /\ layer' = layer + 1
            /\ dpc' = "layers"
    /\ UNCHANGED <<config, images, original, restart, acc, improves, log>>
    /\ UNCHANGED <<annealerVars, imageVars, paramVars>>

\* collage, lines 115-124: the loop is over, the canvas is returned
CollageReturn ==
    /\ dpc = "layers"
    /\ layer >= config.amount
    /\ dpc' = "returned"
    /\ UNCHANGED <<config, images, original, output, layer, restart, acc,
                   improves, log>>
    /\ UNCHANGED <<annealerVars, imageVars, paramVars>>

NextCollage ==
    \/ BackgroundBegin \/ Improve \/ Return \/ BackgroundEnd \/ AnnealPanics
    \/ LayerBegin \/ RestartBegin \/ RestartEnd \/ LayerEnd \/ CollageReturn

SpecCollage == InitCollage /\ [][NextCollage]_vars

(***************************************************************************)
(* Claims about the annealer, checked under Spec.                          *)
(***************************************************************************)
\* the index in `drawn` of the first neighbor of minimum energy
FirstMinimum ==
    CHOOSE i \in 1..Len(drawn) :
        /\ \A j \in 1..Len(drawn) : drawn[i].energy <= drawn[j].energy
        /\ \A j \in 1..(i - 1) : drawn[j].energy > drawn[i].energy

\* C1: for steps >= 1 and a maximum temperature >= 0 the state returned by
\* anneal / anneal_with_energy has an energy <= the energy of the state the
\* Annealer was constructed with, whatever neighbors are drawn.
C1_ReturnedNotWorseThanStart ==
    (an_pc = "done" /\ steps >= 1) => result.energy <= start.energy

\* C3: anneal_with_energy(0) fails: the loop body never runs, no best state is
\* recorded and no state is returned.
C3_ZeroStepsFails ==
    steps = 0
    => /\ an_pc \in {"loop", "failed"}
       /\ (an_pc = "loop" => ENABLED Return)
       /\ drawn = <<>> /\ last = None /\ k = 0
       /\ best_neighbor = None
       /\ result = None

\* C3 witness: the call with steps = 0 has failed
C3_Witness == steps = 0 /\ an_pc = "failed"

\* C5: after every step the recorded best is the neighbor of minimum energy
\* among the neighbors drawn so far, the first one on ties; its energy never
\* increases from one step to the next; the value returned after the loop is
\* this best, whatever the current state is.
C5_BestIsFirstMinimum ==
    /\ (drawn = <<>>) = (best_neighbor = None)
    /\ drawn # <<>> => best_neighbor = drawn[FirstMinimum]
    /\ (last # None /\ last.best_before # None)
          => best_neighbor.energy <= last.best_before.energy
    /\ (an_pc = "done") => (result = best_neighbor /\ result = drawn[FirstMinimum])

\* C5 witness: the run has returned its best, which is the first of two
\* different neighbors of the same minimum energy, while the current state
\* is another state
C5_Witness ==
    /\ an_pc = "done"
    /\ result.state # state.state
    /\ \E j \in 1..Len(drawn) :
          /\ j > FirstMinimum
          /\ drawn[j].energy = result.energy
          /\ drawn[j].state # result.state

\* C10: at step k of `steps` steps the temperature is
\* max_temperature * (1 - (k + 1) / steps), 0 at the final step; the current
\* state becomes the drawn neighbor if and only if
\* neighbor.energy - current.energy <= temperature; so a strictly better
\* neighbor is always accepted and at the final step no strictly worse one is.
C10_TemperatureAndAcceptance ==
    last # None
    => LET delta == last.neighbor.energy - last.current.energy
           fits == delta * steps <= max_temperature * (steps - (last.k + 1))
       IN  /\ last.temperature.den > 0
           /\ last.temperature.num * steps
                = max_temperature * (steps - (last.k + 1)) * last.temperature.den
           /\ (last.k = steps - 1) => last.temperature.num = 0
           /\ fits => state = last.neighbor
           /\ ~fits => (state = last.current /\ state # last.neighbor)
           /\ delta < 0 => state = last.neighbor
           /\ (last.k = steps - 1 /\ delta > 0) => state = last.current

\* C10 witness: before the final step a strictly worse neighbor whose loss is
\* exactly the temperature has been accepted
C10_Witness ==
    /\ last # None
    /\ last.k < steps - 1
    /\ last.neighbor.energy > last.current.energy
    /\ (last.neighbor.energy - last.current.energy) * steps
          = max_temperature * (steps - (last.k + 1))
    /\ state = last.neighbor

(***************************************************************************)
(* Claims about the driver, checked under SpecCollage.                     *)
(***************************************************************************)
\* the index in `log` of the first restart of minimum returned energy
FirstBestRestart ==
    CHOOSE i \in 1..Len(log) :
        /\ \A j \in 1..Len(log) : log[i].result.energy <= log[j].result.energy
        /\ \A j \in 1..(i - 1) : log[j].result.energy > log[i].result.energy

\* C2: with an empty overlay library (steps >= 1, any amount) collage fails,
\* and no annealing step, background phase included, has run before it fails.
C2_EmptyLibraryFailsBeforeAnnealing ==
    (Len(images) = 0 /\ config.steps >= 1)
    => /\ dpc # "returned"
       /\ dpc = "panicked" => improves = 0

\* C9: in each layer iteration the driver runs exactly `starts` restarts of
\* `steps` steps, all of them against the same running canvas, which does not
\* change while they run; then the running canvas becomes the application, to
\* that canvas, of the chain returned by the (first) restart of minimum
\* returned energy.  There are `amount` such iterations.
C9_LayerIsBestRestart ==
    /\ dpc \in {"restarts", "annealing"}
          => /\ Len(log) = restart /\ restart <= config.starts
             /\ layer < config.amount
             /\ \A i \in 1..Len(log) :
                   /\ log[i].canvas = output
                   /\ (i < Len(log) \/ dpc = "restarts")
                        => /\ log[i].steps_run = config.steps
                           /\ log[i].canvas_end = output
    /\ (dpc \in {"layers", "returned"} /\ layer > 0)
          => /\ Len(log) = config.starts
             /\ \A i \in 1..Len(log) :
                   /\ log[i].steps_run = config.steps
                   /\ log[i].canvas = log[1].canvas
                   /\ log[i].canvas_end = log[1].canvas
             /\ output = chain_applies(log[FirstBestRestart].result.state, log[1].canvas)
    /\ dpc = "returned" => layer = config.amount
    /\ layer <= config.amount

\* C9 witness: the second layer has been composited from two restarts of two
\* steps that returned different energies, the second restart the better
C9_Witness ==
    /\ dpc = "layers" /\ layer = 2
    /\ config.starts = 2 /\ config.steps = 2
    /\ Len(log) = 2
    /\ log[2].result.energy < log[1].result.energy
    /\ output # log[1].canvas

(***************************************************************************)
(* One call of a pixel buffer operation: the arguments are drawn in the    *)
(* initial state, the action computes the outcome.                         *)
(***************************************************************************)
\* a canvas whose pixel of index i has the base colour i + 1
Canvas(width, height) ==
    from_raw([index \in 1..(width * height) |-> <<index>>], width, height)

\* an overlay (or a source image) whose pixel of index i is the atom 101 + i
Overlay(width, height) ==
    from_raw([index \in 1..(width * height) |-> 100 + index], width, height)

Canvases == {Canvas(w, h) : w \in 0..MaxCanvas, h \in 0..MaxCanvas}
Others == {Overlay(w, h) : w \in 0..MaxOther, h \in 0..MaxOther}
\* from wholly before the canvas to wholly after it
Positions ==
    {Point(px, py) : px \in (-(MaxOther + 1))..(MaxCanvas + 1),
                     py \in (-(MaxOther + 1))..(MaxCanvas + 1)}

\* the calls: an operation and its arguments
InitCall ==
    \/ \E c \in Canvases, o \in Others, p \in Positions :
          call = [fn |-> "overlay", img |-> c, other |-> o, position |-> p]
    \/ \E c \in Canvases, o \in Others, p \in Positions, a \in Angles :
          call = [fn |-> "overlay_rotated", img |-> c, other |-> o, position |-> p,
                  angle |-> a]
    \/ \E w \in 0..MaxSize, h \in 0..MaxSize, sx \in 0..MaxSize, sy \in 0..MaxSize :
          call = [fn |-> "resized_nearest", img |-> Overlay(w, h),
                  size |-> Point(sx, sy)]
    \/ \E n \in 0..MaxRaw, w \in 0..MaxRaw, h \in 0..MaxRaw :
          call = [fn |-> "from_raw", data |-> [index \in 1..n |-> 100 + index],
                  width |-> w, height |-> h]

InitImage ==
    /\ InitCall
    /\ ret = None
    /\ AnnealerIdle
    /\ DriverIdle
    /\ ParamIdle

CallOverlay ==
    /\ call.fn = "overlay" /\ ret = None
    /\ ret' = overlay(call.img, call.other, call.position)
    /\ UNCHANGED <<call, annealerVars, driverVars, paramVars>>

CallOverlayRotated ==
    /\ call.fn = "overlay_rotated" /\ ret = None
    /\ ret' = overlay_rotated(call.img, call.other, call.position, call.angle)
    /\ UNCHANGED <<call, annealerVars, driverVars, paramVars>>

CallResizedNearest ==
    /\ call.fn = "resized_nearest" /\ ret = None
    /\ ret' = resized_nearest(call.img, call.size)
    /\ UNCHANGED <<call, annealerVars, driverVars, paramVars>>

CallFromRaw ==
    /\ call.fn = "from_raw" /\ ret = None
    /\ ret' = Ok(from_raw(call.data, call.width, call.height))
    /\ UNCHANGED <<call, annealerVars, driverVars, paramVars>>

NextImage == CallOverlay \/ CallOverlayRotated \/ CallResizedNearest \/ CallFromRaw

SpecImage == InitImage /\ [][NextImage]_vars

(***************************************************************************)
(* Claims about the pixel buffer operations, checked under SpecImage.      *)
(***************************************************************************)
\* the canvas pixel of index `index` (from 1) is a destination of overlay's
\* placement: it is position + offset for an offset inside the overlay
IsDestination(index) ==
    LET dx == ((index - 1) % call.img.width) - call.position.x
        dy == ((index - 1) \div call.img.width) - call.position.y
    IN  0 <= dx /\ dx < call.other.width /\ 0 <= dy /\ dy < call.other.height

\* the overlay pixel that lands on the destination pixel of index `index`
LandingPixel(index) ==
    LET dx == ((index - 1) % call.img.width) - call.position.x
        dy == ((index - 1) \div call.img.width) - call.position.y
    IN  100 + (dx + dy * call.other.width) + 1

\* the canvas pixel of index `index` is too far from the pivot to be sampled
\* from the overlay at any angle (distances doubled and squared)
IsFar(index) ==
    LET px == 2 * ((index - 1) % call.img.width)
                - (2 * call.position.x + call.other.width)
        py == 2 * ((index - 1) \div call.img.width)
                - (2 * call.position.y + call.other.height)
    IN  px * px + py * py
          > (call.other.width + 1) * (call.other.width + 1)
            + (call.other.height + 1) * (call.other.height + 1)

\* C4: from_raw(data, width, height) fails whenever data.len() # width * height.
C4_FromRawRejects ==
    (call.fn = "from_raw" /\ ret # None
       /\ Len(call.data) # call.width * call.height)
    => ret.tag = "panic"

\* C6: overlay and overlay_rotated complete without fault at every position,
\* keep the canvas width, height and length, blend at most once onto a pixel,
\* and leave unchanged every canvas pixel that is not a destination of the
\* placement (overlay: not position + offset for an offset inside the overlay;
\* overlay_rotated: farther from the pivot than any overlay pixel can be).
C6_OverlayFrame ==
    (call.fn \in {"overlay", "overlay_rotated"} /\ ret # None)
    => /\ ret.tag = "ok"
       /\ ret.image.width = call.img.width
       /\ ret.image.height = call.img.height
       /\ Len(ret.image.data) = Len(call.img.data)
       /\ \A index \in 1..Len(call.img.data) :
            /\ Len(ret.image.data[index]) <= 2
            /\ (call.fn = "overlay" /\ ~IsDestination(index))
                 => ret.image.data[index] = call.img.data[index]
            /\ (call.fn = "overlay_rotated" /\ IsFar(index))
                 => ret.image.data[index] = call.img.data[index]

\* C6 witness: a rotated overlay at a negative position, partly outside the
\* canvas, has changed one canvas pixel and left a far one alone
C6_Witness ==
    /\ call.fn = "overlay_rotated" /\ ret # None /\ ret.tag = "ok"
    /\ call.angle.sin # 0
    /\ call.position.x < 0
    /\ \E index \in 1..Len(call.img.data) :
            ret.image.data[index] # call.img.data[index]
    /\ \E index \in 1..Len(call.img.data) :
            IsFar(index) /\ ret.image.data[index] = call.img.data[index]

\* C7: overlay_rotated(other, position, 0) yields the same canvas as
\* overlay(other, position): each destination pixel inside the placement
\* rectangle is blended once with the overlay pixel at destination - position,
\* and no other pixel changes.
C7_RotatedZeroIsOverlay ==
    (call.fn = "overlay_rotated" /\ call.angle = Angle0 /\ ret # None)
    => /\ ret = overlay(call.img, call.other, call.position)
       /\ ret.tag = "ok"
       /\ \A index \in 1..Len(call.img.data) :
            ret.image.data[index] =
                IF IsDestination(index)
                THEN <<index, LandingPixel(index)>>
                ELSE <<index>>

\* C7 witness: at angle 0, away from the origin and partly outside the canvas,
\* a pixel was blended and another was not
C7_Witness ==
    /\ call.fn = "overlay_rotated" /\ call.angle = Angle0 /\ ret # None
    /\ call.position.x > 0 /\ call.position.y < 0
    /\ call.position.x + call.other.width > call.img.width
    /\ \E index \in 1..Len(call.img.data) : Len(ret.image.data[index]) = 2
    /\ \E index \in 1..Len(call.img.data) : Len(ret.image.data[index]) = 1

\* C8: for a non-empty source and a target size positive on both axes,
\* resized_nearest returns an image of exactly that size whose every pixel is
\* the source pixel at (destination * oldSize / newSize, truncated, clamped to
\* [0, oldSize - 1]) per axis, and it reads nothing outside the source.
C8_ResizedNearest ==
    (call.fn = "resized_nearest" /\ ret # None
       /\ call.img.width > 0 /\ call.img.height > 0
       /\ call.size.x > 0 /\ call.size.y > 0)
    => /\ ret.tag = "ok"
       /\ ret.image.width = call.size.x
       /\ ret.image.height = call.size.y
       /\ Len(ret.image.data) = call.size.x * call.size.y
       /\ \A r \in ret.reads :
            0 <= r.x /\ r.x < call.img.width /\ 0 <= r.y /\ r.y < call.img.height
       /\ \A index \in 1..(call.size.x * call.size.y) :
            LET dx == (index - 1) % call.size.x
                dy == (index - 1) \div call.size.x
                sx == Min((dx * call.img.width) \div call.size.x, call.img.width - 1)
                sy == Min((dy * call.img.height) \div call.size.y, call.img.height - 1)
            IN  ret.image.data[index] = call.img.data[sx + sy * call.img.width + 1]

\* C8 witness: a resize that widens one axis and shrinks the other, so that
\* source pixels are both duplicated and skipped
C8_Witness ==
    /\ call.fn = "resized_nearest" /\ ret # None /\ ret.tag = "ok"
    /\ call.img.width > 1 /\ call.size.x > call.img.width
    /\ call.size.y > 0 /\ call.size.y < call.img.height

\* the angle -angle, with the rounding error `bias` of its own computation
InverseAngle(angle, bias) ==
    [cos |-> angle.cos, sin |-> -angle.sin, den |-> angle.den, bias |-> bias]

\* C14: overlay_rotated visits only the canvas pixels inside the bounding box
\* of the placement rectangle's corners rotated by `angle` about the pivot;
\* for each it samples the overlay at the pixel's coordinate rotated by the
\* inverse of `angle` about the pivot, rounded, minus position, and blends
\* exactly once when that coordinate is inside the overlay; pixels outside the
\* box are unchanged.
C14_RotatedSamplesInverse ==
    (call.fn = "overlay_rotated" /\ ret # None)
    => /\ ret.tag = "ok"
       /\ \E bias \in (IF call.angle = Angle0 THEN {0} ELSE {-1, 0, 1}) :
            \A index \in 1..Len(call.img.data) :
               LET p == Point((index - 1) % call.img.width,
                              (index - 1) \div call.img.width)
                   inside == between(bb_low(call.other, call.position, call.angle),
                                     bb_high(call.other, call.position, call.angle), p)
                   from == sample_position(call.other, call.position,
                                           InverseAngle(call.angle, bias), p)
               IN  ret.image.data[index] =
                      IF /\ inside
                         /\ 0 <= from.x /\ from.x < call.other.width
                         /\ 0 <= from.y /\ from.y < call.other.height
                      THEN <<index, 100 + (from.x + from.y * call.other.width) + 1>>
                      ELSE <<index>>

\* ---------------------------------------------------------------------
\* The parameters of a layer (collager.rs:206-474): ImageState and the
\* Paramables.  A disabled parameter is None.  Real values are numerators
\* over a fixed denominator; a perturbation picks any value of the grid that
\* float_changed can produce.
\* ---------------------------------------------------------------------

\* struct ImageState
ImageState(image, add_image, angle) ==
    [image |-> image, add_image |-> add_image, angle |-> angle]

\* the outcome of an apply that returns
Applied(st) == [tag |-> "ok", state |-> st]

\* alpha and transparency are in hundredths
AlphaDen == 100
\* lower_bound of TransparencyParam::apply, 0.05
lower_bound == 5

\* a library image: pixel i has lightness 100 + i and the given alpha
LabaImage(width, height, alpha) ==
    from_raw([index \in 1..(width * height) |->
                 [l |-> 100 + index, a |-> 0, b |-> 0, alpha |-> alpha]],
             width, height)

\* ---- ScaleParam: factors in twentieths, so that the floor 0.05 is 1
ScaleDen == 20
\* what float_changed may return for a factor: multiples of 0.25, also below
\* the floor
ScaleChanged == {5 * n : n \in (-4)..6}

\* ScaleParam::random: fastrand::f32() + 0.5 per axis
ScaleParam_random(allow) ==
    IF allow
    THEN {Point(x, y) :
             x \in {v \in ScaleChanged : ScaleDen <= 2 * v /\ 2 * v < 3 * ScaleDen},
             y \in {v \in ScaleChanged : ScaleDen <= 2 * v /\ 2 * v < 3 * ScaleDen}}
    ELSE {None}

\* ScaleParam::neighbor: change(x, 0.5).max(0.05) per axis
ScaleParam_neighbor(value, temp) ==
    IF value = None
    THEN {None}
    ELSE {Point(Max(x, 1), Max(y, 1)) :
             x \in float_changed(value.x, temp, ScaleDen \div 2, ScaleChanged),
             y \in float_changed(value.y, temp, ScaleDen \div 2, ScaleChanged)}

\* ScaleParam::apply: size = (original_size as f32 * scale) as usize
ScaleParam_apply(value, st) ==
    IF value = None
    THEN Applied(st)
    ELSE IF st.add_image = None
    THEN Panic
    ELSE LET raw == st.add_image
             size == Point(Trunc(raw.width * value.x, ScaleDen),
                           Trunc(raw.height * value.y, ScaleDen))
             resized == resized_nearest(raw, size)
         IN  IF resized.tag = "panic"
             THEN Panic
             ELSE Applied([st EXCEPT !.add_image = resized.image])

\* ---- HueParam: a Lab offset, each channel a multiple of 20
HueChanged == {-20, 0, 20}

\* pixels_mut().for_each over the staged overlay
map_pixels(img, f) ==
    [img EXCEPT !.data = [index \in 1..Len(img.data) |-> f[img.data[index]]]]

\* HueParam::random: l in [-25, 25), a and b in [-50, 50)
HueParam_random(allow) ==
    IF allow
    THEN {[l |-> l, a |-> a, b |-> b] :
             l \in HueChanged, a \in HueChanged, b \in HueChanged}
    ELSE {None}

\* HueParam::neighbor: change(x, 20.0) per channel
HueParam_neighbor(value, temp) ==
    IF value = None
    THEN {None}
    ELSE {[l |-> l, a |-> a, b |-> b] :
             l \in float_changed(value.l, temp, 20, HueChanged),
             a \in float_changed(value.a, temp, 20, HueChanged),
             b \in float_changed(value.b, temp, 20, HueChanged)}

\* HueParam::apply
HueParam_apply(value, st) ==
    IF value = None
    THEN Applied(st)
    ELSE IF st.add_image = None
    THEN Panic
    ELSE Applied([st EXCEPT !.add_image =
            map_pixels(st.add_image,
                       [pixel \in {st.add_image.data[index] :
                                      index \in 1..Len(st.add_image.data)} |->
                           [pixel EXCEPT !.l = pixel.l + value.l,
                                         !.a = pixel.a + value.a,
                                         !.b = pixel.b + value.b]])])

\* ---- TransparencyParam: an alpha offset in hundredths, [alpha |-> offset]
\* what float_changed may return: a little beyond [-1, 1]
TransparencyChanged == (-(AlphaDen + 4))..(AlphaDen + 4)

\* TransparencyParam::random: fastrand::f32() * 2.0 - 1.0
TransparencyParam_random(allow) ==
    IF allow
    THEN {[alpha |-> t] : t \in {-AlphaDen, -1, 0, AlphaDen \div 2, AlphaDen - 1}}
    ELSE {None}

\* TransparencyParam::neighbor: change(value, 0.01).clamp(-1.0, 1.0)
TransparencyParam_neighbor(value, temp) ==
    IF value = None
    THEN {None}
    ELSE {[alpha |-> Clamp(w, -AlphaDen, AlphaDen)] :
             w \in float_changed(value.alpha, temp, 1, TransparencyChanged)}

\* TransparencyParam::apply
TransparencyParam_apply(value, st) ==
    IF value = None
    THEN Applied(st)
    ELSE IF st.add_image = None
    THEN Panic
    ELSE Applied([st EXCEPT !.add_image =
            map_pixels(st.add_image,
                       [pixel \in {st.add_image.data[index] :
                                      index \in 1..Len(st.add_image.data)} |->
                           IF pixel.alpha > lower_bound
                           THEN [pixel EXCEPT !.alpha =
                                    Clamp(pixel.alpha + value.alpha, lower_bound,
                                          AlphaDen)]
                           ELSE pixel])])

\* ---- AngleParam: an angle of Angles
\* AngleParam::random: fastrand::f32() * 2 pi
AngleParam_random(allow) == IF allow THEN Angles ELSE {None}

\* AngleParam::neighbor: change(value, 0.01) % 2 pi.  The angles of the model
\* are further apart than 0.01 * temperature: a change keeps the cosine and
\* sine and may move the rounding error to either side
AngleParam_neighbor(value, temp) ==
    IF value = None
    THEN {None}
    ELSE IF temp.num > 0
    THEN {a \in Angles : a.cos = value.cos /\ a.sin = value.sin /\ a.den = value.den}
    ELSE {value}

\* a mutant of AngleParam::apply: a disabled angle stages nothing
AngleParam_apply_absent(value, st) ==
    IF value = None THEN Applied(st) ELSE Applied([st EXCEPT !.angle = value])

\* AngleParam::apply: state.angle = Some(self.0.unwrap_or(0.0))
AngleParam_apply(value, st) ==
    Applied([st EXCEPT !.angle = IF value = None THEN Angle0 ELSE value])

\* ---- PositionParam: a normalized position per axis, in eighths
PositionDen == 8
\* what float_changed may return: -0.5, 0, 0.375, 0.5, 0.875, 1, 1.5
PositionChanged == {-4, 0, 3, 4, 7, 8, 12}

\* PositionParam::random: fastrand::f32() per axis
PositionParam_random ==
    {Point(x, y) : x \in {v \in PositionChanged : 0 <= v /\ v < PositionDen},
                   y \in {v \in PositionChanged : 0 <= v /\ v < PositionDen}}

\* PositionParam::neighbor: change(x, 1.0) per axis
PositionParam_neighbor(value, temp) ==
    {Point(x, y) :
        x \in float_changed(value.x, temp, PositionDen, PositionChanged),
        y \in float_changed(value.y, temp, PositionDen, PositionChanged)}

\* a mutant of PositionParam_offset: no clamp
PositionParam_offset_unclamped(value, add_image, image) ==
    Point(Trunc(value.x * image.width, PositionDen),
          Trunc(value.y * image.height, PositionDen))

\* PositionParam::apply, the pixel offset:
\* ((self.0 * size) as i32).clamp(0, (total_size - small_size).max(0))
PositionParam_offset(value, add_image, image) ==
    Point(Clamp(Trunc(value.x * image.width, PositionDen), 0,
                Max(image.width - add_image.width, 0)),
          Clamp(Trunc(value.y * image.height, PositionDen), 0,
                Max(image.height - add_image.height, 0)))

\* PositionParam::apply: takes the staged overlay and composites it at the
\* offset (recorded beside the returned state)
PositionParam_apply(value, st) ==
    IF st.add_image = None \/ st.angle = None
    THEN Panic
    ELSE LET position == PositionParam_offset(value, st.add_image, st.image)
             overlaid == overlay_rotated(st.image, st.add_image, position, st.angle)
         IN  IF overlaid.tag = "panic"
             THEN Panic
             ELSE [tag |-> "ok",
                   state |-> ImageState(overlaid.image, None, st.angle),
                   offset |-> position]

\* ---- one parameter: created, perturbed, applied ----

MaxNeighbors == 2
ParamTemperatures ==
    {[num |-> 0, den |-> 1], [num |-> 1, den |-> 2], [num |-> 1, den |-> 1]}

\* Paramable::neighbor
neighbor(p, temp) ==
    CASE p.kind = "scale" -> ScaleParam_neighbor(p.value, temp)
      [] p.kind = "hue" -> HueParam_neighbor(p.value, temp)
      [] p.kind = "transparency" -> TransparencyParam_neighbor(p.value, temp)
      [] p.kind = "angle" -> AngleParam_neighbor(p.value, temp)
      [] p.kind = "position" -> PositionParam_neighbor(p.value, temp)

\* the calls of fastrand::f32 a neighbor call makes: one per float_changed
neighbor_draws(p) ==
    IF p.value = None
    THEN 0
    ELSE CASE p.kind = "scale" -> 2
           [] p.kind = "hue" -> 3
           [] p.kind = "transparency" -> 1
           [] p.kind = "angle" -> 1
           [] p.kind = "position" -> 2

\* Paramable::apply
apply(p, st) ==
    CASE p.kind = "scale" -> ScaleParam_apply(p.value, st)
      [] p.kind = "hue" -> HueParam_apply(p.value, st)
      [] p.kind = "transparency" -> TransparencyParam_apply(p.value, st)
      [] p.kind = "angle" -> AngleParam_apply(p.value, st)
      [] p.kind = "position" -> PositionParam_apply(p.value, st)

\* the parameter as the closure `params` creates it (collager.rs:68-83) and
\* the ImageState the chain hands it: the library image staged by IndexParam,
\* for PositionParam also the angle staged by AngleParam
InitParam ==
    /\ \/ \E allow \in BOOLEAN, w \in 1..MaxOther, h \in 1..MaxOther :
            /\ \E value \in ScaleParam_random(allow) :
                  param = [kind |-> "scale", allow |-> allow, value |-> value]
            /\ input = ImageState(Canvas(1, 1), LabaImage(w, h, AlphaDen), None)
       \/ \E allow \in BOOLEAN, w \in 1..MaxOther :
            /\ \E value \in HueParam_random(allow) :
                  param = [kind |-> "hue", allow |-> allow, value |-> value]
            /\ input = ImageState(Canvas(1, 1), LabaImage(w, 1, AlphaDen), None)
       \/ \E allow \in BOOLEAN, w \in 1..MaxOther,
             alpha \in {0, lower_bound, lower_bound + 1, AlphaDen \div 2, AlphaDen} :
            /\ \E value \in TransparencyParam_random(allow) :
                  param = [kind |-> "transparency", allow |-> allow, value |-> value]
            /\ input = ImageState(Canvas(1, 1), LabaImage(w, 1, alpha), None)
       \/ \E allow \in BOOLEAN :
            /\ \E value \in AngleParam_random(allow) :
                  param = [kind |-> "angle", allow |-> allow, value |-> value]
            /\ input = ImageState(Canvas(1, 1), LabaImage(1, 1, AlphaDen), None)
       \/ \E w \in 1..MaxCanvas, h \in 1..MaxCanvas,
             ow \in 0..MaxOther, oh \in 0..MaxOther,
             angle \in {a \in Angles : a.bias = 0} :
            /\ \E value \in PositionParam_random :
                  param = [kind |-> "position", allow |-> TRUE, value |-> value]
            /\ input = ImageState(Canvas(w, h), LabaImage(ow, oh, AlphaDen), angle)
    /\ applied = None /\ draws = 0 /\ neighbors = 0
    /\ AnnealerIdle
    /\ DriverIdle
    /\ ImageIdle

\* Node::neighbors on this parameter, at some temperature
Neighbor ==
    /\ param # None /\ applied = None /\ neighbors < MaxNeighbors
    /\ \E temp \in ParamTemperatures :
          \E value \in neighbor(param, temp) :
             param' = [param EXCEPT !.value = value]
    /\ draws' = neighbor_draws(param)
    /\ neighbors' = neighbors + 1
    /\ UNCHANGED <<input, applied, annealerVars, driverVars, imageVars>>

\* Node::applies on this parameter
Apply ==
    /\ param # None /\ applied = None
    /\ applied' = apply(param, input)
    /\ UNCHANGED <<param, input, draws, neighbors, annealerVars, driverVars, imageVars>>

NextParam == Neighbor \/ Apply
SpecParam == InitParam /\ [][NextParam]_vars

\* ---------------------------------------------------------------------
\* Claims about the parameters
\* ---------------------------------------------------------------------

\* the PixelGrid invariant
IsPixelGrid(img) ==
    /\ img.width * img.height > 0
    /\ Len(img.data) = img.width * img.height

\* C11: every pixel grid of a run has width * height > 0 and
\* data.len() = width * height; in particular the overlay staged by the Scale
\* parameter, for any library image and any scale reachable from an initial
\* value in [0.5, 1.5) by perturbations floored at 0.05.
C11_StagedOverlayIsPixelGrid ==
    (param # None /\ param.kind = "scale")
    => /\ IsPixelGrid(input.image) /\ IsPixelGrid(input.add_image)
       /\ applied # None
          => /\ applied.tag = "ok"
             /\ IsPixelGrid(applied.state.image)
             /\ IsPixelGrid(applied.state.add_image)

\* a Scale, Hue, Transparency or Angle parameter created with allow = false
IsDisabled ==
    /\ param # None
    /\ param.kind \in {"scale", "hue", "transparency", "angle"}
    /\ ~param.allow

IsTruncation(q, num, den) ==
    IF num >= 0
    THEN q * den <= num /\ num < (q + 1) * den
    ELSE q * den >= num /\ num > (q - 1) * den

\* the offset on one axis is `pixel` clamped to [0, max(0, total - small)];
\* it is never negative and never beyond total - small when the overlay fits
IsClampedTo(offset, pixel, small, total) ==
    /\ offset = Clamp(pixel, 0, Max(total - small, 0))
    /\ offset >= 0
    /\ small <= total => offset <= total - small

\* C13 as stated: for any normalized position reachable by perturbation
\* (outside [0, 1] too), Position.apply places the overlay at the pixel offset
\* round(norm * canvasSize) clamped per axis to
\* [0, max(0, canvasSize - overlaySize)].
C13_OffsetIsRoundedClamped ==
    (param # None /\ param.kind = "position" /\ applied # None)
    => /\ applied.tag = "ok"
       /\ IsClampedTo(applied.offset.x,
                      Round(param.value.x * input.image.width, PositionDen, 0),
                      input.add_image.width, input.image.width)
       /\ IsClampedTo(applied.offset.y,
                      Round(param.value.y * input.image.height, PositionDen, 0),
                      input.add_image.height, input.image.height)

\* C13, amended: the pixel offset is norm * canvasSize truncated toward zero
\* (not rounded), clamped per axis to [0, max(0, canvasSize - overlaySize)],
\* and the overlay is composited there at the staged angle.
C13_OffsetIsTruncatedClamped ==
    (param # None /\ param.kind = "position" /\ applied # None)
    => /\ applied.tag = "ok"
       /\ \E qx \in (-input.image.width)..(2 * input.image.width),
             qy \in (-input.image.height)..(2 * input.image.height) :
             /\ IsTruncation(qx, param.value.x * input.image.width, PositionDen)
             /\ IsTruncation(qy, param.value.y * input.image.height, PositionDen)
             /\ IsClampedTo(applied.offset.x, qx,
                            input.add_image.width, input.image.width)
             /\ IsClampedTo(applied.offset.y, qy,
                            input.add_image.height, input.image.height)
       /\ applied.state.image =
             overlay_rotated(input.image, input.add_image, applied.offset,
                             input.angle).image

\* a position perturbed beyond 1 on x and below 0 on y, applied with an
\* overlay smaller than the canvas: the offset is clamped to both limits
C13_Witness ==
    /\ param # None /\ param.kind = "position"
    /\ neighbors > 0
    /\ param.value.x > PositionDen /\ param.value.y < 0
    /\ applied # None /\ applied.tag = "ok"
    /\ input.add_image.width > 0 /\ input.add_image.height > 0
    /\ input.add_image.width < input.image.width
    /\ input.add_image.height < input.image.height
    /\ applied.offset = Point(input.image.width - input.add_image.width, 0)

====
